---- MODULE Spec2Model ----
(***************************************************************************)
(* Model of invoicegen.py (InvoiceGeneratorApp): the configuration loader, *)
(* the invoice-number counter file, the form state and generate_invoice.   *)
(*                                                                         *)
(* Text is modelled as a sequence of one-character strings wherever the    *)
(* code parses or formats it (counter file, rates); dates are records that *)
(* are formatted to and parsed from token tuples.                          *)
(***************************************************************************)
EXTENDS Integers, Sequences, FiniteSets, TLC

----------------------------------------------------------------------------
(* Bounds *)

\* longest counter file content the environment supplies
MaxLen == 3
\* most numbers allocated in one behaviour
MaxAlloc == 3
\* most rows in self.line_items
MaxItems == 3
\* last year selectable in the calendar
MaxYear == 2024

----------------------------------------------------------------------------
(* Text helpers *)

Digits == <<"0", "1", "2", "3", "4", "5", "6", "7", "8", "9">>

IsDigit(c) == \E i \in 1..10 : Digits[i] = c

DigitVal(c) == (CHOOSE i \in 1..10 : Digits[i] = c) - 1

IsSpace(c) == c = " "

RECURSIVE LStrip(_)
LStrip(s) == IF s # <<>> /\ IsSpace(Head(s)) THEN LStrip(Tail(s)) ELSE s

RECURSIVE RStrip(_)
RStrip(s) ==
  IF s # <<>> /\ IsSpace(s[Len(s)]) THEN RStrip(SubSeq(s, 1, Len(s) - 1)) ELSE s

\* str.strip()
Strip(s) == RStrip(LStrip(s))

AllDigits(s) == \A i \in 1..Len(s) : IsDigit(s[i])

RECURSIVE DigitsVal(_)
DigitsVal(s) ==
  IF s = <<>> THEN 0
  ELSE 10 * DigitsVal(SubSeq(s, 1, Len(s) - 1)) + DigitVal(s[Len(s)])

\* the literal without its sign
Unsigned(s) == IF s # <<>> /\ Head(s) = "-" THEN Tail(s) ELSE s

\* int(text) succeeds: an optional sign, then a non-empty run of digits
IntParses(s) == Unsigned(s) # <<>> /\ AllDigits(Unsigned(s))

IntOf(s) == IF s # <<>> /\ Head(s) = "-" THEN 0 - DigitsVal(Tail(s)) ELSE DigitsVal(s)

RECURSIVE StrNat(_)
StrNat(n) ==
  IF n < 10 THEN <<Digits[n + 1]>> ELSE StrNat(n \div 10) \o <<Digits[(n % 10) + 1]>>

\* str(n)
Str(n) == IF n < 0 THEN <<"-">> \o StrNat(0 - n) ELSE StrNat(n)

\* f.seek(0); f.write(new) on a file opened "r+": the bytes are overwritten in
\* place and the rest of the old content stays
WriteAtStart(old, new) ==
  IF Len(new) >= Len(old) THEN new
  ELSE new \o SubSeq(old, Len(new) + 1, Len(old))

----------------------------------------------------------------------------
(* Configuration file: a line is a sequence of tokens, "=" being the       *)
(* separator character; a value is the token sequence after the first "="  *)

ConfigKeys ==
  <<"companyimage_file_name", "signature_file_name", "company_name", "address",
    "city_st_zip", "phone_no", "email", "customer_name", "customer_email",
    "customer_address", "customer_city">>

KeySet == {ConfigKeys[i] : i \in 1..Len(ConfigKeys)}

\* attributes __init__ and create_widgets read before the window is usable
StartupKeys == {"company_name", "address", "city_st_zip", "phone_no", "customer_name"}

\* StringVars bound to an Entry ("Authorized Signatory" is bound to the
\* company_name variable itself)
EntryKeys == {"company_name", "address", "city_st_zip", "phone_no", "customer_name"}

NoAttrs == [k \in {} |-> <<>>]

\* line.split('=', 1)
Split1(line) ==
  IF \E i \in 1..Len(line) : line[i] = "="
  THEN LET p == CHOOSE i \in 1..Len(line) :
                  line[i] = "=" /\ \A j \in 1..(i - 1) : line[j] # "="
       IN  <<SubSeq(line, 1, p - 1), SubSeq(line, p + 1, Len(line))>>
  ELSE <<line>>

\* key, value = ...: unpacking needs exactly two parts
Unpacks(line) == Len(Split1(line)) = 2

\* the if/elif chain: a recognised key sets the attribute, any other is ignored
SetAttr(attrs, key, value) ==
  IF Len(key) = 1 /\ key[1] \in KeySet
  THEN [k \in DOMAIN attrs \cup {key[1]} |-> IF k = key[1] THEN value ELSE attrs[k]]
  ELSE attrs

\* variant: a line without "=" is skipped
RECURSIVE LoadLines_Skip(_, _)
LoadLines_Skip(lines, attrs) ==
  IF lines = <<>> THEN [err |-> "none", attrs |-> attrs]
  ELSE IF ~Unpacks(Head(lines)) THEN LoadLines_Skip(Tail(lines), attrs)
  ELSE LET kv == Split1(Head(lines))
       IN  LoadLines_Skip(Tail(lines), SetAttr(attrs, kv[1], kv[2]))

\* the for loop of load_config; err is the ValueError of a failed unpacking
RECURSIVE LoadLines(_, _)
LoadLines(lines, attrs) ==
  IF lines = <<>> THEN [err |-> "none", attrs |-> attrs]
  ELSE IF ~Unpacks(Head(lines)) THEN [err |-> "ValueError", attrs |-> attrs]
  ELSE LET kv == Split1(Head(lines))
       IN  LoadLines(Tail(lines), SetAttr(attrs, kv[1], kv[2]))

\* load_config(file_path)
LoadConfig(cfg) ==
  IF ~cfg.exists THEN [err |-> "not_found", attrs |-> NoAttrs]
  ELSE LoadLines(cfg.lines, NoAttrs)

\* __init__ after load_config: "none" when the window comes up
InitError(loaded) ==
  IF loaded.err = "ValueError" THEN "ValueError"
  ELSE IF ~(StartupKeys \subseteq DOMAIN loaded.attrs) THEN "AttributeError"
  ELSE "none"

\* variant: the file is written whether or not it exists
VerifyText_Reset(exists, text) == <<"0">>

\* verify_invoice_number_file: content of the counter file afterwards
VerifyText(exists, text) == IF exists THEN text ELSE <<"0">>

CompleteLines == [i \in 1..Len(ConfigKeys) |-> <<ConfigKeys[i], "=", "v">>]

DropLine(lines, i) == SubSeq(lines, 1, i - 1) \o SubSeq(lines, i + 1, Len(lines))

InsertLine(lines, i, l) == SubSeq(lines, 1, i) \o <<l>> \o SubSeq(lines, i + 1, Len(lines))

\* lines an operator gets wrong: no separator, a blank line
BadLines == {<<"company_name">>, <<>>}

\* lines that load: unknown key, value holding "=", repeated key, empty value
OddLines == {<<"color", "=", "red">>, <<"address", "=", "a", "=", "b">>,
             <<"customer_name", "=">>}

ConfigFiles ==
  {[exists |-> FALSE, lines |-> <<>>], [exists |-> TRUE, lines |-> CompleteLines]}
  \cup {[exists |-> TRUE, lines |-> DropLine(CompleteLines, i)] : i \in 1..Len(ConfigKeys)}
  \cup {[exists |-> TRUE, lines |-> InsertLine(CompleteLines, i, l)] :
          i \in 0..Len(ConfigKeys), l \in BadLines \cup OddLines}

GoodConfig == [exists |-> TRUE, lines |-> CompleteLines]

----------------------------------------------------------------------------
(* Dates *)

MonthNames ==
  <<"January", "February", "March", "April", "May", "June", "July", "August",
    "September", "October", "November", "December">>

IsLeap(y) == (y % 4 = 0 /\ y % 100 # 0) \/ y % 400 = 0

DaysInMonth(y, m) ==
  IF m = 2 THEN (IF IsLeap(y) THEN 29 ELSE 28)
  ELSE IF m \in {4, 6, 9, 11} THEN 30 ELSE 31

NextDay(dt) ==
  IF dt.d < DaysInMonth(dt.y, dt.m) THEN [dt EXCEPT !.d = dt.d + 1]
  ELSE IF dt.m < 12 THEN [y |-> dt.y, m |-> dt.m + 1, d |-> 1]
  ELSE [y |-> dt.y + 1, m |-> 1, d |-> 1]

\* date + timedelta(days=k)
RECURSIVE AddDays(_, _)
AddDays(dt, k) == IF k = 0 THEN dt ELSE AddDays(NextDay(dt), k - 1)

\* strftime("%d %B %Y")
Format(dt) == <<dt.d, MonthNames[dt.m], dt.y>>

\* Calendar.get_date(): "%m/%d/%y"
CalGetDate(dt) == <<dt.m, dt.d, dt.y % 100>>

\* strptime(s, "%m/%d/%y"): two-digit years 69..99 are 19xx, 00..68 are 20xx
Strptime(t) ==
  [y |-> IF t[3] >= 69 THEN 1900 + t[3] ELSE 2000 + t[3], m |-> t[1], d |-> t[2]]

DueOffset == 15

CalYears == (MaxYear - 1)..MaxYear

CalMonths == {1, 2, 11, 12}

CalDays == {1, 14, 17, 20, 29, 31}

CalDates ==
  {dt \in [y : CalYears, m : CalMonths, d : CalDays] : dt.d <= DaysInMonth(dt.y, dt.m)}

\* system dates the application is started on
StartDates == {dt \in CalDates : dt.m \in {2, 12} /\ dt.d \in {14, 20}}

\* dates a user types into the Date entry
TypedDates == {dt \in CalDates : dt.m \in {1, 2, 12} /\ dt.d \in {1, 17, 20}}

----------------------------------------------------------------------------
(* Rates: text of the Rate entry of a line item *)

RateTexts ==
  { <<"1", "0", ".", "0", "0">>, <<"2", "0", ".", "5", "0">>, <<"5", ".", "2", "5">>,
    <<".", "5">>, <<"a", "b", "c">>, <<>> }

DotCount(s) == Cardinality({i \in 1..Len(s) : s[i] = "."})

WholePart(s) ==
  IF DotCount(s) = 0 THEN s
  ELSE SubSeq(s, 1, (CHOOSE i \in 1..Len(s) : s[i] = ".") - 1)

FracPart(s) ==
  IF DotCount(s) = 0 THEN <<>>
  ELSE SubSeq(s, (CHOOSE i \in 1..Len(s) : s[i] = ".") + 1, Len(s))

\* float(text) succeeds: digits with at most one point and at least one digit
FloatParses(s) ==
  /\ \A i \in 1..Len(s) : IsDigit(s[i]) \/ s[i] = "."
  /\ DotCount(s) <= 1
  /\ Len(s) > DotCount(s)

\* float(text) in cents; the rate texts of the model have at most two decimals,
\* for which the float sum displayed with .2f is the exact sum
CentsOf(s) ==
  LET f == FracPart(s)
      f2 == IF Len(f) = 0 THEN <<"0", "0">> ELSE IF Len(f) = 1 THEN f \o <<"0">> ELSE f
  IN  100 * DigitsVal(WholePart(s)) + DigitsVal(SubSeq(f2, 1, 2))

\* variant: "subtotal = float(rate.get())"
RECURSIVE Accumulate_Assign(_, _)
Accumulate_Assign(rows, subtotal) ==
  IF rows = <<>> THEN subtotal
  ELSE Accumulate_Assign(Tail(rows), CentsOf(Head(rows)))

\* the loop "subtotal += float(rate.get())" over the rows before the first
\* row whose rate does not parse
RECURSIVE Accumulate(_, _)
Accumulate(rows, subtotal) ==
  IF rows = <<>> THEN subtotal
  ELSE Accumulate(Tail(rows), subtotal + CentsOf(Head(rows)))

\* f"{subtotal:.2f}" as <<units, cents>>
Display2f(cents) == <<cents \div 100, cents % 100>>

----------------------------------------------------------------------------
(* State *)

VARIABLES
  cfg,          \* config.txt: [exists, lines]
  counterFile,  \* invoice_number.txt: [exists, text]
  docs,         \* invoices/: the numbers n for which Invoice_n.pdf exists
  logoExists,   \* the file named by companyimage_file_name is readable
  sigExists,    \* the file named by signature_file_name is readable
  today,        \* datetime.date.today()
  pc,           \* "off": no process; "ready": mainloop idle;
                \* "rendering": generate_invoice between line 269 and line 382
  attrs,        \* attributes set by load_config (StringVar contents)
  date,         \* self.date: text of the Date entry
  due_date,     \* self.due_date
  line_items,   \* self.line_items: text of the Rate entry of each row
  number,       \* invoice_number of the running generate_invoice
  boot,         \* how the last start went: [loader, init]
  issued,       \* history: values returned by get_next_invoice_number
  written,      \* history: documents saved by inv_canvas.save()
  outcome,      \* history: how the last generate_invoice call went
  pre,          \* history: when that call began, the counter text, the docs,
                \* the required fields left blank and the numbers issued so far
  start0,       \* history: the counter file before the first start
  allocLimit    \* bound: allocations explored in this behaviour

vars ==
  <<cfg, counterFile, docs, logoExists, sigExists, today, pc, attrs, date, due_date,
    line_items, number, boot, issued, written, outcome, pre, start0, allocLimit>>

env == <<cfg, logoExists, sigExists, today, start0, allocLimit>>

form == <<attrs, date, due_date, line_items>>

hist == <<issued, written, outcome, pre>>

\* counter file contents the environment may hold: digits, sign, blank, junk
CounterChars == {"0", "1", "9", "-", " ", "x"}

CounterTexts == UNION {[1..n -> CounterChars] : n \in 0..MaxLen}

\* a few contents for the specifications that vary something else
FewCounterTexts == {<<"0">>, <<"9">>, <<"1", "9">>, <<" ", "1">>, <<"x">>}

CounterFiles(texts) ==
  {[exists |-> FALSE, text |-> <<>>]} \cup {[exists |-> TRUE, text |-> t] : t \in texts}

BaseDate == [y |-> MaxYear, m |-> 12, d |-> 20]

InitWith(cfgs, counters, assets, days, limit) ==
  /\ allocLimit = limit
  /\ cfg \in cfgs
  /\ counterFile \in counters
  /\ docs = {}
  /\ logoExists \in assets
  /\ sigExists \in assets
  /\ today \in days
  /\ pc = "off"
  /\ attrs = NoAttrs
  /\ date = <<>>
  /\ due_date = <<>>
  /\ line_items = <<>>
  /\ number = 0
  /\ boot = [loader |-> "unstarted", init |-> "unstarted"]
  /\ issued = <<>>
  /\ written = <<>>
  /\ outcome = "none"
  /\ pre = [text |-> <<>>, docs |-> {}, blank |-> {}, calls |-> 0]
  /\ start0 = counterFile

----------------------------------------------------------------------------
(* Operations *)

\* app = InvoiceGeneratorApp(): __init__ up to mainloop
Start ==
  /\ pc = "off"
  /\ Len(issued) < allocLimit
  /\ LET loaded == LoadConfig(cfg)
         err == InitError(loaded)
     IN  /\ boot' = [loader |-> loaded.err, init |-> err]
         /\ IF err = "none"
            THEN /\ attrs' = loaded.attrs
                 /\ date' = Format(today)
                 /\ due_date' = Format(AddDays(today, DueOffset))
                 /\ line_items' = <<>>
                 /\ counterFile' =
                      [exists |-> TRUE,
                       text |-> VerifyText(counterFile.exists, counterFile.text)]
                 /\ pc' = "ready"
            ELSE UNCHANGED <<form, counterFile, pc>>
  /\ UNCHANGED <<env, docs, number, hist>>

\* the first start of a behaviour
FirstStart == boot.init = "unstarted" /\ Start

\* the process ends without finishing its work: window closed, or killed
\* anywhere in generate_invoice after the counter was written
Kill ==
  /\ pc \in {"ready", "rendering"}
  /\ pc' = "off"
  /\ attrs' = NoAttrs
  /\ date' = <<>>
  /\ due_date' = <<>>
  /\ line_items' = <<>>
  /\ number' = 0
  /\ UNCHANGED <<env, counterFile, docs, boot, hist>>

\* typing into one of the entries made by create_label_and_entry
EditField(k, v) ==
  /\ pc = "ready"
  /\ k \in EntryKeys
  /\ attrs' = [attrs EXCEPT ![k] = v]
  /\ UNCHANGED <<env, counterFile, docs, pc, date, due_date, line_items, number,
                 boot, hist>>

\* typing into the Date entry, bound to self.date only
EditDate(t) ==
  /\ pc = "ready"
  /\ date' = t
  /\ UNCHANGED <<env, counterFile, docs, pc, attrs, due_date, line_items, number,
                 boot, hist>>

\* select_date and its set_date callback, for the day picked in the calendar
SelectDate(picked) ==
  /\ pc = "ready"
  /\ LET date_adj == Strptime(CalGetDate(picked))
     IN  /\ date' = Format(date_adj)
         /\ due_date' = Format(AddDays(date_adj, DueOffset))
  /\ UNCHANGED <<env, counterFile, docs, pc, attrs, line_items, number, boot, hist>>

\* open_line_item_window: a new window and, through add_line_item_row, a row
OpenLineItemWindow ==
  /\ pc = "ready"
  /\ Len(line_items) < MaxItems
  /\ line_items' = Append(line_items, <<>>)
  /\ UNCHANGED <<env, counterFile, docs, pc, attrs, date, due_date, number, boot, hist>>

\* add_line_item_row from the "+ Add Line" button of a line item window;
\* one was opened, in this process, exactly if there is a row
AddLineItemRow ==
  /\ pc = "ready"
  /\ line_items # <<>>
  /\ Len(line_items) < MaxItems
  /\ line_items' = Append(line_items, <<>>)
  /\ UNCHANGED <<env, counterFile, docs, pc, attrs, date, due_date, number, boot, hist>>

\* typing into the Rate entry of row i
EditRate(i, t) ==
  /\ pc = "ready"
  /\ i \in 1..Len(line_items)
  /\ line_items' = [line_items EXCEPT ![i] = t]
  /\ UNCHANGED <<env, counterFile, docs, pc, attrs, date, due_date, number, boot, hist>>

----------------------------------------------------------------------------
(* generate_invoice *)

Value(as, k) == IF k \in DOMAIN as THEN as[k] ELSE <<>>

\* what line 264 reads, in its order; authorized_signatory is the
\* company_name variable
Required(as, dateText) ==
  [company_name |-> Value(as, "company_name"), address |-> Value(as, "address"),
   city_st_zip |-> Value(as, "city_st_zip"), date |-> dateText,
   customer_name |-> Value(as, "customer_name"), phone_no |-> Value(as, "phone_no"),
   authorized_signatory |-> Value(as, "company_name")]

Blank(as, dateText) ==
  {f \in DOMAIN Required(as, dateText) : Required(as, dateText)[f] = <<>>}

\* variant: customer_name is not checked
AllFilled_NoCustomer(as, dateText) ==
  /\ Value(as, "company_name") # <<>>
  /\ Value(as, "address") # <<>>
  /\ Value(as, "city_st_zip") # <<>>
  /\ dateText # <<>>
  /\ Value(as, "phone_no") # <<>>

\* the check of line 264
AllFilled(as, dateText) ==
  /\ Value(as, "company_name") # <<>>
  /\ Value(as, "address") # <<>>
  /\ Value(as, "city_st_zip") # <<>>
  /\ dateText # <<>>
  /\ Value(as, "customer_name") # <<>>
  /\ Value(as, "phone_no") # <<>>
  /\ Value(as, "company_name") # <<>>

\* variant: the number is returned and the file is left as it was
GetNextInvoiceNumber_NoWrite(text) ==
  LET body == Strip(text)
  IN  IF IntParses(body)
      THEN [ok |-> TRUE, number |-> IntOf(body) + 1, text |-> text]
      ELSE [ok |-> FALSE, number |-> 0, text |-> text]

\* variant: content that does not parse is taken for 0
GetNextInvoiceNumber_Repair(text) ==
  LET body == Strip(text)
      next == IF IntParses(body) THEN IntOf(body) + 1 ELSE 1
  IN  [ok |-> TRUE, number |-> next, text |-> WriteAtStart(text, Str(next))]

\* get_next_invoice_number on a file holding text: ok is FALSE when int()
\* raises, which happens before the file is written
GetNextInvoiceNumber(text) ==
  LET body == Strip(text)
      next == IntOf(body) + 1
  IN  IF IntParses(body)
      THEN [ok |-> TRUE, number |-> next, text |-> WriteAtStart(text, Str(next))]
      ELSE [ok |-> FALSE, number |-> 0, text |-> text]

\* lines 263-269: the field check and the allocation of the number
GenerateInvoice ==
  /\ pc = "ready"
  /\ counterFile.exists
  /\ Len(issued) < allocLimit
  /\ pre' = [text |-> counterFile.text, docs |-> docs, blank |-> Blank(attrs, date),
             calls |-> Len(issued)]
  /\ IF ~AllFilled(attrs, date)
     THEN /\ outcome' = "validation"
          /\ UNCHANGED <<counterFile, issued, number, pc>>
     ELSE LET r == GetNextInvoiceNumber(counterFile.text)
          IN  IF r.ok
              THEN /\ counterFile' = [counterFile EXCEPT !.text = r.text]
                   /\ issued' = Append(issued, r.number)
                   /\ number' = r.number
                   /\ pc' = "rendering"
                   /\ outcome' = "allocated"
              ELSE /\ outcome' = "corrupt"
                   /\ UNCHANGED <<counterFile, issued, number, pc>>
  /\ UNCHANGED <<env, docs, form, boot, written>>

\* index of the first row whose rate float() rejects, 0 when there is none
FirstBadRate(rows) ==
  IF \E i \in 1..Len(rows) : ~FloatParses(rows[i])
  THEN CHOOSE i \in 1..Len(rows) :
         ~FloatParses(rows[i]) /\ \A j \in 1..(i - 1) : FloatParses(rows[j])
  ELSE 0

\* lines 273-382 in drawing order: what stops the drawing, "saved" if nothing
RenderResult(as, rows, logo, sig) ==
  IF "companyimage_file_name" \notin DOMAIN as THEN "AttributeError"
  ELSE IF ~logo THEN "asset_missing"
  ELSE IF ~({"email", "customer_email", "customer_address", "customer_city"}
              \subseteq DOMAIN as) THEN "AttributeError"
  ELSE IF FirstBadRate(rows) # 0 THEN "render_error"
  ELSE IF "signature_file_name" \notin DOMAIN as THEN "AttributeError"
  ELSE IF ~sig THEN "asset_missing"
  ELSE "saved"

\* the total drawn at line 354
TotalText(rows) == Display2f(Accumulate(rows, 0))

\* lines 273-389: drawing; the file is written by inv_canvas.save() only, and
\* then the window is destroyed. An exception returns to the mainloop.
Render ==
  /\ pc = "rendering"
  /\ LET res == RenderResult(attrs, line_items, logoExists, sigExists)
     IN  /\ outcome' = res
         /\ IF res = "saved"
            THEN /\ docs' = docs \cup {number}
                 /\ written' = Append(written,
                       [n |-> number, date |-> date, due |-> due_date,
                        total |-> TotalText(line_items), rates |-> line_items])
                 /\ pc' = "off"
                 /\ attrs' = NoAttrs
                 /\ date' = <<>>
                 /\ due_date' = <<>>
                 /\ line_items' = <<>>
            ELSE /\ pc' = "ready"
                 /\ UNCHANGED <<docs, written, form>>
  /\ number' = 0
  /\ UNCHANGED <<env, counterFile, boot, issued, pre>>

----------------------------------------------------------------------------
(* Specifications *)

Field == \E k \in EntryKeys, v \in {<<>>, <<"typed">>} : EditField(k, v)

Typed == \E t \in {Format(dt) : dt \in TypedDates} \cup {<<>>} : EditDate(t)

Picked == \E dt \in CalDates : SelectDate(dt)

Rate == \E i \in 1..MaxItems, t \in RateTexts : EditRate(i, t)

\* the counter file: every content, default form
Init ==
  InitWith({GoodConfig}, CounterFiles(CounterTexts), {TRUE}, {BaseDate}, MaxAlloc)

Next == Start \/ Kill \/ GenerateInvoice \/ Render

Spec == Init /\ [][Next]_vars

\* the configuration file: every variant
InitConfig ==
  InitWith(ConfigFiles, CounterFiles(FewCounterTexts), {TRUE}, {BaseDate}, MaxAlloc)

SpecConfig == InitConfig /\ [][Next]_vars

\* the required fields
InitFields ==
  InitWith({GoodConfig}, CounterFiles(FewCounterTexts), {TRUE}, {BaseDate}, MaxAlloc)

NextFields == Start \/ Kill \/ Field \/ GenerateInvoice \/ Render

SpecFields == InitFields /\ [][NextFields]_vars

\* line items and assets, in one run of the application
InitItems ==
  InitWith({GoodConfig}, {[exists |-> TRUE, text |-> <<"9">>]}, BOOLEAN, {BaseDate},
           MaxAlloc)

NextItems ==
  FirstStart \/ Kill \/ OpenLineItemWindow \/ AddLineItemRow \/ Rate \/ GenerateInvoice \/ Render

SpecItems == InitItems /\ [][NextItems]_vars

\* dates, in one run of the application
InitDates ==
  InitWith({GoodConfig}, CounterFiles({<<"0">>}), {TRUE}, StartDates, MaxAlloc)

NextDates == FirstStart \/ Kill \/ Picked \/ Typed \/ GenerateInvoice \/ Render

SpecDates == InitDates /\ [][NextDates]_vars

----------------------------------------------------------------------------
(* Properties *)

Range(f) == {f[i] : i \in 1..Len(f)}

\* the counter file holds an integer: int(text.strip()) succeeds
HoldsInteger(text) == IntParses(Strip(text))

\* the counter file holds a non-negative integer, written without a sign
HoldsNumber(text) == HoldsInteger(text) /\ AllDigits(Strip(text))

NumberIn(text) == IntOf(Strip(text))

\* C1: from a counter file holding a non-negative integer C, the calls of
\* get_next_invoice_number return C+1, C+2, ... in that order
C1_MonotonicNumbering ==
  (start0.exists /\ HoldsNumber(start0.text)) =>
    \A i \in 1..Len(issued) : issued[i] = NumberIn(start0.text) + i

\* C2: right after a call of get_next_invoice_number on a file holding a
\* non-negative integer, the whole file parses to the number just returned
C2_CounterDurability ==
  (outcome = "allocated" /\ HoldsNumber(pre.text)) =>
    /\ HoldsNumber(counterFile.text)
    /\ NumberIn(counterFile.text) = issued[Len(issued)]

\* the counter file was absent or did not hold a negative integer at first
StartedInDomain ==
  start0.exists /\ HoldsInteger(start0.text) => IntOf(Strip(start0.text)) >= 0

\* C3: the counter file is written before the document of that number and
\* every written document carries an issued number; with a counter that did
\* not start negative, the numbers of the written documents strictly
\* increase, so no two documents share a number, whatever the crashes and
\* restarts in between
C3_NoDuplicateAcrossCrashes ==
  /\ \A i \in 1..Len(written) : written[i].n \in Range(issued)
  /\ pc = "rendering" =>
       /\ number = issued[Len(issued)]
       /\ counterFile.text # pre.text
  /\ StartedInDomain =>
       /\ \A i, j \in 1..Len(written) : i < j => written[i].n < written[j].n
       /\ pc = "rendering" =>
            /\ \A i \in 1..Len(written) : written[i].n < number
            /\ HoldsInteger(counterFile.text) => NumberIn(counterFile.text) >= number

\* two documents written, the number allocated between them lost to a crash
C3_Witness ==
  /\ Len(issued) = 3
  /\ Len(written) = 2
  /\ written[1].n = issued[1]
  /\ written[2].n = issued[3]

\* C4: a generate_invoice call with a required field blank ends at the field
\* check with the counter file and the documents as they were, and the retry
\* that passes the check receives the number after the one the counter held
\* at the failed call
C4_ValidationGate ==
  /\ [](pre.blank # {} =>
          /\ outcome = "validation"
          /\ counterFile.text = pre.text
          /\ docs = pre.docs
          /\ Len(issued) = pre.calls)
  /\ [][(outcome = "validation" /\ outcome' = "allocated") =>
          number' = NumberIn(pre.text) + 1]_vars

\* a number was issued, then a call with the customer name blank was stopped
C4_Witness ==
  /\ pc = "ready"
  /\ outcome = "validation"
  /\ pre.blank = {"customer_name"}
  /\ pre.calls = 1
  /\ Len(issued) = 1

\* C5: a call that fails on a rate that does not parse or on a missing asset
\* leaves the counter file as it was and writes no document
C5_RenderFailureMutatesNothing ==
  outcome \in {"render_error", "asset_missing"} =>
    /\ counterFile.text = pre.text
    /\ docs = pre.docs

\* C6: a start creates the counter file holding 0 when it is absent and leaves
\* an existing counter file as it is
C6_InitIdempotent ==
  [][(pc = "off" /\ pc' = "ready") =>
       IF counterFile.exists THEN counterFile' = counterFile
       ELSE counterFile' = [exists |-> TRUE, text |-> <<"0">>]]_vars

\* a restart after numbers were issued, the counter past 0
C6_Witness ==
  /\ pc = "ready"
  /\ Len(issued) = 2
  /\ HoldsNumber(counterFile.text)
  /\ NumberIn(counterFile.text) = issued[2]
  /\ issued[2] > 0

MonthOf(name) == CHOOSE m \in 1..12 : MonthNames[m] = name

\* reading of a printed "%d %B %Y" date
Printed(t) == [y |-> t[3], m |-> MonthOf(t[2]), d |-> t[1]]

DaysBeforeYear(y) == 365 * (y - 1) + (y - 1) \div 4 - (y - 1) \div 100 + (y - 1) \div 400

RECURSIVE DaysBeforeMonth(_, _)
DaysBeforeMonth(y, m) ==
  IF m = 1 THEN 0 ELSE DaysBeforeMonth(y, m - 1) + DaysInMonth(y, m - 1)

\* proleptic Gregorian day number
DayNumber(dt) == DaysBeforeYear(dt.y) + DaysBeforeMonth(dt.y, dt.m) + dt.d

\* C7: the due date printed on a document is its printed issue date plus 15 days
C7_DueDateOffset ==
  \A i \in 1..Len(written) :
    DayNumber(Printed(written[i].due)) = DayNumber(Printed(written[i].date)) + DueOffset

\* C8: a call that finds the counter file not holding an integer returns no
\* number, leaves the file as it was and writes no document
C8_CorruptCounterKept ==
  (outcome # "none" /\ pre.blank = {} /\ ~HoldsInteger(pre.text)) =>
    /\ outcome = "corrupt"
    /\ pc # "rendering"
    /\ counterFile.text = pre.text
    /\ docs = pre.docs
    /\ Len(issued) = pre.calls

C8_Witness ==
  /\ outcome = "corrupt"
  /\ pre.text = <<"1", "x">>
  /\ counterFile.text = <<"1", "x">>

\* the settings file is missing or has a line without "="
BadConfig == ~cfg.exists \/ \E i \in 1..Len(cfg.lines) : "=" \notin Range(cfg.lines[i])

\* C9: with the settings file missing or holding a line without "=", a start
\* reports the problem and aborts, the window never comes up, and the counter
\* file and the documents stay as they were
C9_ConfigErrorAborts ==
  BadConfig =>
    /\ pc = "off"
    /\ counterFile = start0
    /\ docs = {}
    /\ issued = <<>>
    /\ boot.init # "none"
    /\ boot.init # "unstarted" => boot.loader \in {"not_found", "ValueError"}

\* a start stopped by a line without "=", the counter file still absent
C9_Witness ==
  /\ cfg.exists
  /\ BadConfig
  /\ boot.loader = "ValueError"
  /\ ~counterFile.exists

RECURSIVE SumFromEnd(_)
SumFromEnd(rows) ==
  IF rows = <<>> THEN 0
  ELSE CentsOf(rows[Len(rows)]) + SumFromEnd(SubSeq(rows, 1, Len(rows) - 1))

Example == << <<"1", "0", ".", "0", "0">>, <<"2", "0", ".", "5", "0">>, <<"5", ".", "2", "5">> >>

\* C10: the total printed on a document is the sum of the rates of its rows,
\* each row counted, to two decimals; 10.00, 20.50, 5.25 give 35.75 and no
\* rows give 0.00
C10_SubtotalCorrect ==
  \A i \in 1..Len(written) :
    /\ written[i].total = <<SumFromEnd(written[i].rates) \div 100,
                            SumFromEnd(written[i].rates) % 100>>
    /\ written[i].rates = Example => written[i].total = <<35, 75>>
    /\ written[i].rates = <<>> => written[i].total = <<0, 0>>

C10_Witness == \E i \in 1..Len(written) : written[i].rates = Example

====
